---- MODULE Spec2Model ----
(***************************************************************************)
(* Industry capital-flow ranking pipeline (Industrytrending.py) and the    *)
(* generic thread-pool runner (ParallelUtils.py).                          *)
(*                                                                         *)
(* Column names of the data frames are written in ASCII:                   *)
(*   name = 行业名称      lead = 领涨股        pct = 行业-涨跌幅            *)
(*   net = 净额           stage_pct = 阶段涨跌幅                           *)
(*   pct_now = 涨幅_now   net_now = 净额_now                               *)
(*   net_3d = 净额_3d     pct_3d = 涨幅_3d  (likewise 5d, 10d, 20d)        *)
(*   turnover = 换手率    bigdeal = 大单印证                               *)
(*   money_score = 资金分 price_score = 价格分 turn_score = 换手分         *)
(*   trend = 趋势得分     signal = 行业信号                                *)
(* The pass-through columns 行业指数, 流入资金 and 领涨股-涨跌幅 are copied *)
(* by the code unchanged and read by nothing; they are left out.           *)
(*                                                                         *)
(* Numbers.  A float cell is [nan, v]: v an integer in the cell's unit     *)
(* (net flows in 亿, percentages in %, the trend score in hundredths).     *)
(* A percentile score is the exact fraction num/den (100 * rank / count).  *)
(* Net flows are multiples of 5, for which the float weighted sums order   *)
(* as the exact ones do; for tables of up to 9 rows the float percentile   *)
(* scores and the rounded trend score compare with the thresholds as the   *)
(* exact fractions do.                                                     *)
(***************************************************************************)
EXTENDS Integers, Sequences, FiniteSets, TLC

VARIABLES
    \* ---- IndustryFlowAnalyzer.run_analysis ----
    pc,          \* position of run_analysis
    cache,       \* the file at self.cache_path
    period,      \* index of the next window of period_map to fetch
    dfs,         \* dfs: window key -> fetched data set (non-empty ones only)
    main,        \* the data frame `main`
    turnoverDf,  \* turnover_df
    bigDealStocks, \* big_deal_stocks
    result,      \* what run_analysis returned
    startCache,  \* state of the cache file when the current run began
    fetchCount,  \* provider calls made by the current run
    writeStatus, \* outcome of the current run's cache write
    wroteOk,     \* some run has completed the pipeline and written the cache
    \* ---- run_with_thread_pool ----
    ppc,         \* position of run_with_thread_pool
    pItems,      \* items
    pIsGen,      \* items is a one-shot iterator (a generator)
    pWorker,     \* worker_func: item -> "raise" | "none" | "value"
    pMaxWorkers, \* max_workers
    pToSubmit,   \* what iterating over items still yields
    pFutures,    \* the submitted futures, in submission order
    pResults,    \* results
    pLogged,     \* the items of the [ERROR] lines printed
    \* ---- one row through scoring and classification ----
    crow

pipeVars == <<pc, cache, period, dfs, main, turnoverDf, bigDealStocks, result,
              startCache, fetchCount, writeStatus, wroteOk>>
poolVars == <<ppc, pItems, pIsGen, pWorker, pMaxWorkers, pToSubmit, pFutures,
              pResults, pLogged>>
vars == <<pipeVars, poolVars, crow>>

(***************************************************************************)
(* Bounds                                                                  *)
(***************************************************************************)
MaxIndustries == 3   \* rows of the instant-window data set
MaxItems == 3        \* items handed to run_with_thread_pool
MaxWorkers == 3      \* max_workers
MaxRows == 7         \* row count of the table a classified row belongs to

(***************************************************************************)
(* Float cells                                                             *)
(***************************************************************************)
Num(x) == [nan |-> FALSE, v |-> x]
NaN == [nan |-> TRUE, v |-> 0]
NaNScore == [nan |-> TRUE, num |-> 0, den |-> 1]

\* Series.fillna(0.0)
FillNaZero(x) == IF x.nan THEN Num(0) ELSE x

Range(s) == {s[i] : i \in DOMAIN s}


(***************************************************************************)
(* What the provider can return                                            *)
(***************************************************************************)
AllIndustries == <<"A", "B", "C", "D", "E">>
Outsider == "X"      \* an industry no instant-window data set holds
Leads == <<"s1", "s2", "s3", "s4", "s5">>

\* period_map: the five windows, in fetch order
Windows == <<"now", "3d", "5d", "10d", "20d">>
Trailing == <<"3d", "5d", "10d", "20d">>
NetCol == ("3d" :> "net_3d") @@ ("5d" :> "net_5d") @@ ("10d" :> "net_10d")
          @@ ("20d" :> "net_20d")
PctCol == ("3d" :> "pct_3d") @@ ("5d" :> "pct_5d") @@ ("10d" :> "pct_10d")
          @@ ("20d" :> "pct_20d")
MoneyRankCols == <<"net_3d", "net_5d", "net_10d", "net_20d">>

\* a cleaned instant-window data set of k industries; those in hi rose
NowData(k, hi) ==
    [i \in 1..k |->
        [name |-> AllIndustries[i],
         pct  |-> Num(IF i \in hi THEN 5 ELSE -2),
         net  |-> Num((((i * 3) % 5) - 2) * 5),
         lead |-> Leads[i]]]

NowChoices ==
    {<<>>} \cup {NowData(k, hi) : k \in 1..MaxIndustries, hi \in SUBSET (1..MaxIndustries)}

TrailRow(w, nm, i, variant) ==
    [name      |-> nm,
     net       |-> Num((((i * 7 + w * 3 + variant) % 5) - 2) * 5),
     stage_pct |-> Num(((i + w + variant) % 4) - 1)]

\* a cleaned trailing-window data set: every industry and the outsider
TrailFull(w) ==
    [i \in 1..(MaxIndustries + 1) |->
        IF i <= MaxIndustries THEN TrailRow(w, AllIndustries[i], i, 0)
        ELSE TrailRow(w, Outsider, i, 0)]

\* a cleaned trailing-window data set: the outsider and the first industry only
TrailPart(w) == <<TrailRow(w, Outsider, 0, 1), TrailRow(w, AllIndustries[1], 1, 1)>>

TrailChoices(w) == {<<>>, TrailFull(w), TrailPart(w)}

TurnoverFull ==
    [i \in 1..(MaxIndustries + 1) |->
        [name |-> IF i <= MaxIndustries THEN AllIndustries[i] ELSE Outsider,
         turnover |-> Num(((i * 2) % 3) + 1)]]
TurnoverPart ==
    <<[name |-> Outsider, turnover |-> Num(2)],
      [name |-> AllIndustries[1], turnover |-> Num(4)]>>
TurnoverChoices == {<<>>, TurnoverFull, TurnoverPart}

BigDealChoices == {{}, {Leads[1]}, {Leads[2], "other"}}

(***************************************************************************)
(* Data-frame operations                                                   *)
(***************************************************************************)
Columns(rows) == IF rows = <<>> THEN {} ELSE DOMAIN rows[1]

RECURSIVE Concat(_)
Concat(ss) == IF ss = <<>> THEN <<>> ELSE Head(ss) \o Concat(Tail(ss))

\* the rows one left row yields in a left join: one per matching right row,
\* or one with NaN in the new columns when nothing matches
JoinRow(l, right, newcols) ==
    LET hits == SelectSeq(right, LAMBDA r : r.name = l.name)
    IN  IF hits = <<>> THEN <<l @@ [c \in DOMAIN newcols |-> NaN]>>
        ELSE [j \in 1..Len(hits) |->
                l @@ [c \in DOMAIN newcols |-> hits[j][newcols[c]]]]

\* an inner join in place of the left join
MergeInner(left, right, newcols) ==
    Concat([i \in 1..Len(left) |->
        LET hits == SelectSeq(right, LAMBDA r : r.name = left[i].name)
        IN  [j \in 1..Len(hits) |->
                left[i] @@ [c \in DOMAIN newcols |-> hits[j][newcols[c]]]]])

\* pd.merge(left, right, on='name', how='left'); newcols: new column -> the
\* right column it comes from
MergeLeft(left, right, newcols) ==
    Concat([i \in 1..Len(left) |-> JoinRow(left[i], right, newcols)])

\* main = dfs['now'][[...]].copy(); main.rename(...)
BaseRows(now) ==
    [i \in 1..Len(now) |->
        ("name" :> now[i].name) @@ ("pct_now" :> now[i].pct)
        @@ ("net_now" :> now[i].net) @@ ("lead" :> now[i].lead)]

\* the loop over '3d', '5d', '10d', '20d' that joins each fetched window
RECURSIVE MergeWindows(_, _, _)
MergeWindows(rows, d, k) ==
    IF k > Len(Trailing) THEN rows
    ELSE LET p == Trailing[k]
         IN  IF p \in DOMAIN d
             THEN MergeWindows(
                    MergeLeft(rows, d[p],
                        (NetCol[p] :> "net") @@ (PctCol[p] :> "stage_pct")),
                    d, k + 1)
             ELSE MergeWindows(rows, d, k + 1)

\* a data frame with the default RangeIndex
Frame(rows) == [idx |-> [i \in 1..Len(rows) |-> i - 1], rows |-> rows]
EmptyFrame == [idx |-> <<>>, rows |-> <<>>]

\* main[col] = vals
SetCol(rows, col, vals) ==
    [i \in 1..Len(rows) |-> (col :> vals[i]) @@ rows[i]]

\* the big-deal flag of every row
BigDealFlags(rows, big) ==
    [i \in DOMAIN rows |-> IF rows[i]["lead"] \in big THEN "confirmed"
                           ELSE "none"]

\* 0.0 for every row
Zeros(rows) == [i \in DOMAIN rows |-> Num(0)]

(***************************************************************************)
(* Scores                                                                  *)
(***************************************************************************)
\* Series.rank(pct=True, ascending=...) * 100: average rank among the
\* non-NaN values, over their count; NaN stays NaN
RankPct(vals, ascending) ==
    LET valid == {j \in DOMAIN vals : ~vals[j].nan}
        cnt   == Cardinality(valid)
    IN  [i \in DOMAIN vals |->
            IF vals[i].nan THEN NaNScore
            ELSE LET before == Cardinality({j \in valid :
                                  IF ascending THEN vals[j].v < vals[i].v
                                  ELSE vals[j].v > vals[i].v})
                     same == Cardinality({j \in valid : vals[j].v = vals[i].v})
                 IN  [nan |-> FALSE, num |-> 50 * (2 * before + same + 1),
                      den |-> cnt]]

\* 10 * (net_3d * 0.4 + net_5d * 0.3 + net_10d * 0.2 + net_20d * 0.1)
WeightedNet(row) ==
    IF row["net_3d"].nan \/ row["net_5d"].nan \/ row["net_10d"].nan
       \/ row["net_20d"].nan
    THEN NaN
    ELSE Num(4 * row["net_3d"].v + 3 * row["net_5d"].v + 2 * row["net_10d"].v
             + row["net_20d"].v)

\* a / b rounded to the nearest integer, halves to the even one (a >= 0, b > 0)
RoundHalfEven(a, b) ==
    LET q == a \div b
        r == a % b
    IN  IF 2 * r < b THEN q
        ELSE IF 2 * r > b THEN q + 1
        ELSE IF q % 2 = 0 THEN q ELSE q + 1

\* the money score alone taken as the trend score
TrendOfMoneyOnly(money, price) ==
    IF money.nan \/ price.nan THEN NaN
    ELSE Num(RoundHalfEven(100 * money.num, money.den))

\* (money_score * 0.5 + price_score * 0.5).round(2), in hundredths
TrendScore(money, price) ==
    IF money.nan \/ price.nan THEN NaN
    ELSE Num(RoundHalfEven(
                100 * (money.num * price.den + price.num * money.den),
                2 * money.den * price.den))

ScoreGt(s, k) == ~s.nan /\ s.num > k * s.den
ScoreLt(s, k) == ~s.nan /\ s.num < k * s.den

(***************************************************************************)
(* Signal classification                                                   *)
(***************************************************************************)
\* is_submerged
IsSubmerged(r) ==
    ScoreGt(r["money_score"], 75) /\ ScoreLt(r["price_score"], 50)
    /\ ScoreGt(r["turn_score"], 60)

\* is_shaking: trend.between(50, 80) and bigdeal == '确认'
IsShaking(r) ==
    /\ ~r["trend"].nan /\ 5000 <= r["trend"].v /\ r["trend"].v <= 8000
    /\ r["bigdeal"] = "confirmed"

\* conds, in the order of the list handed to np.select
Cond(k, r) ==
    CASE k = 1 -> ~r["trend"].nan /\ r["trend"].v > 8500
      [] k = 2 -> ~r["trend"].nan /\ r["trend"].v < 2500
      [] k = 3 -> IsSubmerged(r)
      [] k = 4 -> IsShaking(r)

Choices == <<"capital_offensive", "receding_warning", "submerged_accumulation",
             "low_level_active_move">>
DefaultSignal == "watch_range"

\* the last matching condition wins
SelectLast(r) ==
    LET hit == {k \in 1..4 : Cond(k, r)}
    IN  IF hit = {} THEN DefaultSignal
        ELSE Choices[CHOOSE k \in hit : \A j \in hit : j <= k]

\* np.select(conds, choices, default): the first matching condition wins
SignalOf(r) ==
    LET hit == {k \in 1..4 : Cond(k, r)}
    IN  IF hit = {} THEN DefaultSignal
        ELSE Choices[CHOOSE k \in hit : \A j \in hit : k <= j]

\* the signal of every row
Signals(rows) == [i \in DOMAIN rows |-> SignalOf(rows[i])]

\* position of the row sort_values puts first among those in `left`:
\* the highest trend score, NaN last, the earliest row among equals (the
\* default sort is an insertion sort on tables this small, hence stable)
FirstOf(rows, left) ==
    CHOOSE i \in left : \A j \in left \ {i} :
        LET a == rows[i]["trend"]
            b == rows[j]["trend"]
        IN  \/ ~a.nan /\ b.nan
            \/ ~a.nan /\ ~b.nan /\ a.v > b.v
            \/ a.nan = b.nan /\ (a.nan \/ a.v = b.v) /\ i < j

RECURSIVE SortOrder(_, _)
SortOrder(rows, left) ==
    IF left = {} THEN <<>>
    ELSE LET i == FirstOf(rows, left)
         IN  <<i>> \o SortOrder(rows, left \ {i})

\* main.sort_values('trend', ascending=False)
SortValues(df) ==
    LET ord == SortOrder(df.rows, DOMAIN df.rows)
    IN  [idx  |-> [k \in 1..Len(ord) |-> df.idx[ord[k]]],
         rows |-> [k \in 1..Len(ord) |-> df.rows[ord[k]]]]

(***************************************************************************)
(* Cache file.  The file is absent, unparseable, or a table to_csv wrote.  *)
(* read_csv raises on an unparseable file and on no other.  A write may    *)
(* fail (makedirs or to_csv raises) and then leaves the file as it was or  *)
(* leaves an unparseable fragment of it.                                   *)
(***************************************************************************)
NoFile == [state |-> "absent", data |-> <<>>]
CorruptFile == [state |-> "corrupt", data |-> <<>>]

\* result.to_csv(path, sep='\t', index=False): the rows, without the index
ToCsv(df) == [state |-> "valid", data |-> df.rows]

\* pd.read_csv(path, sep='\t'): the rows under a fresh RangeIndex
ReadCsv(file) == Frame(file.data)

(***************************************************************************)
(* IndustryFlowAnalyzer.run_analysis, step by step                         *)
(***************************************************************************)
NoResult == [returned |-> FALSE, df |-> EmptyFrame]
Resting == {"idle", "done", "raised"}

PoolOff ==
    /\ ppc = "off" /\ pItems = <<>> /\ pIsGen = FALSE /\ pWorker = <<>>
    /\ pMaxWorkers = 1 /\ pToSubmit = <<>> /\ pFutures = <<>>
    /\ pResults = <<>> /\ pLogged = <<>>
RowOff == crow = [stage |-> "off"]
PipeOff ==
    /\ pc = "off" /\ cache = NoFile /\ period = 1 /\ dfs = <<>>
    /\ main = EmptyFrame /\ turnoverDf = <<>> /\ bigDealStocks = {}
    /\ result = NoResult /\ startCache = "absent"
    /\ fetchCount = 0 /\ writeStatus = "none" /\ wroteOk = FALSE

Init ==
    /\ pc = "idle"
    /\ cache \in {NoFile, CorruptFile}
    /\ period = 1
    /\ dfs = <<>>
    /\ main = EmptyFrame
    /\ turnoverDf = <<>>
    /\ bigDealStocks = {}
    /\ result = NoResult
    /\ startCache = "absent"
    /\ fetchCount = 0
    /\ writeStatus = "none"
    /\ wroteOk = FALSE
    /\ PoolOff
    /\ RowOff

\* what every run starts from
BeginRun ==
    /\ period' = 1
    /\ dfs' = <<>>
    /\ main' = EmptyFrame
    /\ turnoverDf' = <<>>
    /\ bigDealStocks' = {}
    /\ startCache' = cache.state
    /\ fetchCount' = 0
    /\ writeStatus' = "none"
    /\ UNCHANGED <<cache, wroteOk, poolVars, crow>>

\* a cache hit that loads the file and goes on to fetch all the same
CacheHitThenFetch ==
    /\ pc \in Resting
    /\ cache.state = "valid"
    /\ pc' = "fetch"
    /\ result' = NoResult
    /\ BeginRun

\* the cache file exists and parses: return it
CacheHit ==
    /\ pc \in Resting
    /\ cache.state = "valid"
    /\ pc' = "done"
    /\ result' = [returned |-> TRUE, df |-> ReadCsv(cache)]
    /\ BeginRun

\* no cache file, or read_csv raises: go on to the provider
CacheMiss ==
    /\ pc \in Resting
    /\ cache.state # "valid"
    /\ pc' = "fetch"
    /\ result' = NoResult
    /\ BeginRun

\* one turn of the loop over period_map: _fetch_and_clean, kept when non-empty
FetchPeriod ==
    /\ pc = "fetch"
    /\ \E d \in (IF period = 1 THEN NowChoices ELSE TrailChoices(period - 1)) :
          dfs' = IF d # <<>> THEN (Windows[period] :> d) @@ dfs ELSE dfs
    /\ fetchCount' = fetchCount + 1
    /\ period' = period + 1
    /\ pc' = IF period = Len(Windows) THEN "align" ELSE "fetch"
    /\ UNCHANGED <<turnoverDf, bigDealStocks, cache, main, result, startCache, writeStatus, wroteOk,
                   poolVars, crow>>

\* without the instant window the run goes on, with an empty table, to the
\* cache write
AbortNoBaseThenWrite ==
    /\ pc = "align"
    /\ "now" \notin DOMAIN dfs
    /\ result' = [returned |-> FALSE, df |-> EmptyFrame]
    /\ pc' = "write"
    /\ UNCHANGED <<turnoverDf, bigDealStocks, cache, period, dfs, main, startCache, fetchCount,
                   writeStatus, wroteOk, poolVars, crow>>

\* if "now" not in dfs: return pd.DataFrame()
AbortNoBase ==
    /\ pc = "align"
    /\ "now" \notin DOMAIN dfs
    /\ result' = [returned |-> TRUE, df |-> EmptyFrame]
    /\ pc' = "done"
    /\ UNCHANGED <<turnoverDf, bigDealStocks, cache, period, dfs, main, startCache, fetchCount,
                   writeStatus, wroteOk, poolVars, crow>>

\* 1. the base table and the joins of the fetched trailing windows
AlignBase ==
    /\ pc = "align"
    /\ "now" \in DOMAIN dfs
    /\ main' = Frame(MergeWindows(BaseRows(dfs["now"]), dfs, 1))
    /\ pc' = "turnover"
    /\ UNCHANGED <<turnoverDf, bigDealStocks, cache, period, dfs, result, startCache, fetchCount,
                   writeStatus, wroteOk, poolVars, crow>>

\* 2. _fetch_market_turnover, joined, or 0.0 throughout when it is empty
FetchTurnover ==
    /\ pc = "turnover"
    /\ \E t \in TurnoverChoices :
          /\ turnoverDf' = t
          /\ main' = IF t # <<>>
                     THEN Frame(MergeLeft(main.rows, t,
                                          ("turnover" :> "turnover")))
                     ELSE [main EXCEPT !.rows = SetCol(main.rows, "turnover",
                                                       Zeros(main.rows))]
    /\ fetchCount' = fetchCount + 1
    /\ pc' = "bigdeal"
    /\ UNCHANGED <<bigDealStocks, cache, period, dfs, result, startCache, writeStatus,
                   wroteOk, poolVars, crow>>

\* _fetch_big_deal_logic and the bigdeal column
FetchBigDeal ==
    /\ pc = "bigdeal"
    /\ \E big \in BigDealChoices :
          /\ bigDealStocks' = big
          /\ main' = [main EXCEPT !.rows = SetCol(main.rows, "bigdeal",
                          BigDealFlags(main.rows, big))]
    /\ fetchCount' = fetchCount + 1
    /\ pc' = "fillna"
    /\ UNCHANGED <<turnoverDf, cache, period, dfs, result, startCache, writeStatus,
                   wroteOk, poolVars, crow>>

MissingRankCols == Range(MoneyRankCols) \ Columns(main.rows)

\* 3. main[col] of a column no join created: KeyError leaves run_analysis
FillNaRaise ==
    /\ pc = "fillna"
    /\ MissingRankCols # {}
    /\ pc' = "raised"
    /\ UNCHANGED <<turnoverDf, bigDealStocks, cache, period, dfs, main, result, startCache, fetchCount,
                   writeStatus, wroteOk, poolVars, crow>>

FillRow(r) ==
    [c \in DOMAIN r |-> IF c \in Range(MoneyRankCols) THEN FillNaZero(r[c])
                        ELSE r[c]]

\* 3. for col in money_rank_cols: main[col] = main[col].fillna(0.0)
FillNa ==
    /\ pc = "fillna"
    /\ MissingRankCols = {}
    /\ main' = [main EXCEPT !.rows = [i \in DOMAIN main.rows |->
                                        FillRow(main.rows[i])]]
    /\ pc' = "score"
    /\ UNCHANGED <<turnoverDf, bigDealStocks, cache, period, dfs, result, startCache, fetchCount,
                   writeStatus, wroteOk, poolVars, crow>>

\* the four score columns
ScoreRows(rows) ==
    LET money == RankPct([i \in DOMAIN rows |-> WeightedNet(rows[i])], TRUE)
        price == RankPct([i \in DOMAIN rows |-> rows[i]["pct_now"]], TRUE)
        turn  == RankPct([i \in DOMAIN rows |-> rows[i]["turnover"]], FALSE)
    IN  [i \in DOMAIN rows |->
            ("money_score" :> money[i]) @@ ("price_score" :> price[i])
            @@ ("turn_score" :> turn[i])
            @@ ("trend" :> TrendScore(money[i], price[i])) @@ rows[i]]

Score ==
    /\ pc = "score"
    /\ main' = [main EXCEPT !.rows = ScoreRows(main.rows)]
    /\ pc' = "classify"
    /\ UNCHANGED <<turnoverDf, bigDealStocks, cache, period, dfs, result, startCache, fetchCount,
                   writeStatus, wroteOk, poolVars, crow>>

\* 4. the signal column, then result = main.sort_values(...)
Classify ==
    /\ pc = "classify"
    /\ main' = [main EXCEPT !.rows = SetCol(main.rows, "signal",
                                            Signals(main.rows))]
    /\ result' = [returned |-> FALSE, df |-> SortValues(main')]
    /\ pc' = "write"
    /\ UNCHANGED <<turnoverDf, bigDealStocks, cache, period, dfs, startCache, fetchCount, writeStatus,
                   wroteOk, poolVars, crow>>

\* os.makedirs / to_csv under try-except, then return result.  A failed
\* write leaves the file as it was, or leaves an unparseable fragment.
WriteCache ==
    /\ pc = "write"
    /\ \E o \in {"ok", "failed", "failed_partial"} :
          /\ cache' = CASE o = "ok" -> ToCsv(result.df)
                        [] o = "failed" -> cache
                        [] o = "failed_partial" -> CorruptFile
          /\ writeStatus' = IF o = "ok" THEN "ok" ELSE "failed"
          /\ wroteOk' = (wroteOk \/ o = "ok")
    /\ result' = [result EXCEPT !.returned = TRUE]
    /\ pc' = "done"
    /\ UNCHANGED <<turnoverDf, bigDealStocks, period, dfs, main, startCache, fetchCount, poolVars, crow>>

Next ==
    \/ CacheHit
    \/ CacheMiss
    \/ FetchPeriod
    \/ AbortNoBase
    \/ AlignBase
    \/ FetchTurnover
    \/ FetchBigDeal
    \/ FillNaRaise
    \/ FillNa
    \/ Score
    \/ Classify
    \/ WriteCache

Spec == Init /\ [][Next]_vars

(***************************************************************************)
(* Properties of run_analysis                                              *)
(***************************************************************************)
NamesOf(rows) == {rows[i]["name"] : i \in DOMAIN rows}
Ended == pc \in {"done", "raised"}
BaseFetched == "now" \in DOMAIN dfs
\* the current run fetched the instant window and got nothing
BaseFailed == period > 1 /\ ~BaseFetched

\* the table a run returns from the data sets it fetched when no cache file
\* exists and the write works
ReferenceTable ==
    IF ~BaseFetched THEN EmptyFrame
    ELSE LET merged == MergeWindows(BaseRows(dfs["now"]), dfs, 1)
             turned == IF turnoverDf # <<>>
                       THEN MergeLeft(merged, turnoverDf,
                                      ("turnover" :> "turnover"))
                       ELSE SetCol(merged, "turnover", Zeros(merged))
             flagged == SetCol(turned, "bigdeal",
                               BigDealFlags(turned, bigDealStocks))
             filled == [i \in DOMAIN flagged |-> FillRow(flagged[i])]
             scored == ScoreRows(filled)
             labelled == SetCol(scored, "signal", Signals(scored))
         IN  SortValues(Frame(labelled))

\* C1: a run without a usable cache whose instant-window fetch returned data
\* does not raise, whichever trailing-window, turnover and big-deal fetches
\* came back empty: it returns a ranked table of the instant window's
\* industries in which a failed window's columns and a failed turnover are
\* 0.0 and a failed big-deal fetch leaves every row unconfirmed.
C1_DegradedModeReturnsTable ==
    (Ended /\ startCache # "valid" /\ BaseFetched) =>
        /\ pc = "done"
        /\ result.returned
        /\ Len(result.df.rows) = Len(dfs["now"])
        /\ \A i \in DOMAIN result.df.rows :
              LET r == result.df.rows[i]
              IN  /\ \A k \in DOMAIN Trailing :
                        Trailing[k] \notin DOMAIN dfs =>
                            /\ r[NetCol[Trailing[k]]] = Num(0)
                            /\ r[PctCol[Trailing[k]]] = Num(0)
                  /\ turnoverDf = <<>> => r["turnover"] = Num(0)
                  /\ bigDealStocks = {} => r["bigdeal"] = "none"

\* C2: once the instant-window fetch of a run has come back empty, the run
\* builds no table, makes no enrichment fetch, writes nothing to the cache
\* and ends by returning an empty frame, whatever the other windows returned.
C2_NoBaseAbortsWithoutWrite ==
    BaseFailed =>
        /\ pc \in {"fetch", "align", "done"}
        /\ main = EmptyFrame
        /\ turnoverDf = <<>>
        /\ fetchCount <= Len(Windows)
        /\ writeStatus = "none"
        /\ cache.state = startCache
        /\ cache.data = <<>>
        /\ pc = "done" => result = [returned |-> TRUE, df |-> EmptyFrame]

C2_Witness ==
    /\ pc = "done" /\ BaseFailed /\ startCache = "corrupt"
    /\ {"3d", "5d", "10d", "20d"} \subseteq DOMAIN dfs
    /\ result.returned

\* C3: after a run that went through the whole pipeline and wrote the cache,
\* every run that starts returns the table read from the cache file and
\* makes no fetch, builds no table and leaves the cache file alone.
C3_CacheHitSkipsAllWork ==
    [][(wroteOk /\ pc \in Resting) =>
          /\ pc' = "done"
          /\ result' = [returned |-> TRUE, df |-> ReadCsv(cache)]
          /\ fetchCount' = 0
          /\ writeStatus' = "none"
          /\ main' = EmptyFrame
          /\ dfs' = <<>>
          /\ cache' = cache]_vars

C3_Witness ==
    /\ pc = "done" /\ wroteOk /\ startCache = "valid" /\ fetchCount = 0
    /\ result.returned /\ Len(result.df.rows) >= 2
    /\ result.df.rows = cache.data

\* C7: when the scores are about to be computed, every trailing-window net
\* flow and price change and every turnover of every row is a number, and it
\* is 0.0 where the row's industry had no match in the source data set.
C7_NoMissingValueAtScoring ==
    pc = "score" =>
        \A i \in DOMAIN main.rows :
            LET r == main.rows[i]
            IN  /\ ~r["pct_now"].nan
                /\ ~r["turnover"].nan
                /\ (turnoverDf # <<>> /\ r["name"] \notin NamesOf(turnoverDf))
                      => r["turnover"] = Num(0)
                /\ \A k \in DOMAIN Trailing :
                      LET p == Trailing[k]
                      IN  /\ ~r[NetCol[p]].nan
                          /\ ~r[PctCol[p]].nan
                          /\ r["name"] \notin NamesOf(dfs[p]) =>
                                /\ r[NetCol[p]] = Num(0)
                                /\ r[PctCol[p]] = Num(0)

SameRowSet(rows, now) ==
    /\ Len(rows) = Len(now)
    /\ NamesOf(rows) = NamesOf(now)

\* C8: from the merge on, the table has exactly one row per industry of the
\* instant-window data set and no other row, and so has the returned table.
C8_LeftJoinRowSet ==
    /\ pc \in {"turnover", "bigdeal", "fillna", "score", "classify", "write",
               "raised"} => SameRowSet(main.rows, dfs["now"])
    /\ (pc \in {"write", "done"} /\ BaseFetched) =>
          /\ SameRowSet(main.rows, dfs["now"])
          /\ SameRowSet(result.df.rows, dfs["now"])

C8_Witness ==
    /\ pc = "done" /\ BaseFetched /\ result.returned
    /\ Len(result.df.rows) >= 2
    /\ \E p \in DOMAIN dfs \ {"now"} :
          /\ Outsider \in NamesOf(dfs[p])
          /\ NamesOf(dfs["now"]) \ NamesOf(dfs[p]) # {}
    /\ Outsider \in NamesOf(turnoverDf)
    /\ NamesOf(dfs["now"]) \ NamesOf(turnoverDf) # {}

\* C9: a run that found an unreadable cache file, or whose cache write
\* failed, lets no exception escape and returns the table that the same
\* fetched data give a run with no cache file and a working write.
C9_CacheFailuresNonFatal ==
    (Ended /\ (startCache = "corrupt" \/ writeStatus = "failed")) =>
        /\ pc = "done"
        /\ result.returned
        /\ fetchCount >= Len(Windows)
        /\ result.df = ReferenceTable

(***************************************************************************)
(* run_with_thread_pool                                                    *)
(***************************************************************************)
ItemVals == {1, 2, 3}
Outcomes == {"raise", "none", "value"}
\* what worker_func returns for an item it does not fail on
ResultOf(item) == item * 10

RECURSIVE SeqsUpTo(_)
SeqsUpTo(n) ==
    IF n = 0 THEN {<<>>}
    ELSE LET shorter == SeqsUpTo(n - 1)
         IN  shorter \cup {Append(q, x) : q \in shorter, x \in ItemVals}

InitPool ==
    /\ PipeOff
    /\ RowOff
    /\ ppc = "start"
    /\ pItems \in SeqsUpTo(MaxItems)
    /\ pIsGen \in BOOLEAN
    /\ pWorker \in [ItemVals -> Outcomes]
    /\ pMaxWorkers \in 1..MaxWorkers
    /\ pToSubmit = pItems
    /\ pFutures = <<>>
    /\ pResults = <<>>
    /\ pLogged = <<>>

\* total = len(list(items)): a one-shot iterator is used up by it
PoolStart ==
    /\ ppc = "start"
    /\ pToSubmit' = IF pIsGen THEN <<>> ELSE pItems
    /\ ppc' = "submit"
    /\ UNCHANGED <<pItems, pIsGen, pWorker, pMaxWorkers, pFutures, pResults,
                   pLogged, pipeVars, crow>>

\* executor.submit(worker_func, item) for the next item
Submit ==
    /\ ppc = "submit"
    /\ pToSubmit # <<>>
    /\ pFutures' = Append(pFutures, [item |-> Head(pToSubmit), st |-> "pending"])
    /\ pToSubmit' = Tail(pToSubmit)
    /\ UNCHANGED <<ppc, pItems, pIsGen, pWorker, pMaxWorkers, pResults,
                   pLogged, pipeVars, crow>>

\* the comprehension is through: as_completed begins
SubmitEnd ==
    /\ ppc = "submit"
    /\ pToSubmit = <<>>
    /\ ppc' = "collect"
    /\ UNCHANGED <<pItems, pIsGen, pWorker, pMaxWorkers, pToSubmit, pFutures,
                   pResults, pLogged, pipeVars, crow>>

Running == {i \in DOMAIN pFutures : pFutures[i].st = "running"}
Pending == {i \in DOMAIN pFutures : pFutures[i].st = "pending"}

\* a free pool thread takes the oldest queued call
WorkerStart ==
    /\ Pending # {}
    /\ Cardinality(Running) < pMaxWorkers
    /\ LET i == CHOOSE k \in Pending : \A j \in Pending : k <= j
       IN  pFutures' = [pFutures EXCEPT ![i].st = "running"]
    /\ UNCHANGED <<ppc, pItems, pIsGen, pWorker, pMaxWorkers, pToSubmit,
                   pResults, pLogged, pipeVars, crow>>

\* a call of worker_func returns or raises; its future is finished
WorkerFinish ==
    /\ \E i \in Running : pFutures' = [pFutures EXCEPT ![i].st = "finished"]
    /\ UNCHANGED <<ppc, pItems, pIsGen, pWorker, pMaxWorkers, pToSubmit,
                   pResults, pLogged, pipeVars, crow>>

\* a loop body that appends None like any other result
CollectKeepNone ==
    /\ ppc = "collect"
    /\ \E i \in DOMAIN pFutures :
          /\ pFutures[i].st = "finished"
          /\ pFutures' = [pFutures EXCEPT ![i].st = "yielded"]
          /\ LET item == pFutures[i].item
                 out  == pWorker[item]
             IN  /\ pResults' = IF out = "value"
                                THEN Append(pResults, ResultOf(item))
                                ELSE IF out = "none" THEN Append(pResults, 0)
                                ELSE pResults
                 /\ pLogged' = IF out = "raise" THEN Append(pLogged, item)
                               ELSE pLogged
    /\ UNCHANGED <<ppc, pItems, pIsGen, pWorker, pMaxWorkers, pToSubmit,
                   pipeVars, crow>>

\* a loop that the first exception ends
CollectStopOnError ==
    /\ ppc = "collect"
    /\ \E i \in DOMAIN pFutures :
          /\ pFutures[i].st = "finished"
          /\ pFutures' = [pFutures EXCEPT ![i].st = "yielded"]
          /\ LET item == pFutures[i].item
                 out  == pWorker[item]
             IN  /\ pResults' = IF out = "value"
                                THEN Append(pResults, ResultOf(item))
                                ELSE pResults
                 /\ pLogged' = IF out = "raise" THEN Append(pLogged, item)
                               ELSE pLogged
                 /\ ppc' = IF out = "raise" THEN "done" ELSE ppc
    /\ UNCHANGED <<pItems, pIsGen, pWorker, pMaxWorkers, pToSubmit,
                   pipeVars, crow>>

\* one turn of `for future in as_completed(future_to_item)`: a finished
\* future is yielded (those already finished in no fixed order, the others
\* as they finish); its result is appended unless it is None, its exception
\* is caught and printed
Collect ==
    /\ ppc = "collect"
    /\ \E i \in DOMAIN pFutures :
          /\ pFutures[i].st = "finished"
          /\ pFutures' = [pFutures EXCEPT ![i].st = "yielded"]
          /\ LET item == pFutures[i].item
                 out  == pWorker[item]
             IN  /\ pResults' = IF out = "value"
                                THEN Append(pResults, ResultOf(item))
                                ELSE pResults
                 /\ pLogged' = IF out = "raise" THEN Append(pLogged, item)
                               ELSE pLogged
    /\ UNCHANGED <<ppc, pItems, pIsGen, pWorker, pMaxWorkers, pToSubmit,
                   pipeVars, crow>>

\* every future has been yielded: the pool shuts down, results is returned
PoolReturn ==
    /\ ppc = "collect"
    /\ \A i \in DOMAIN pFutures : pFutures[i].st = "yielded"
    /\ ppc' = "done"
    /\ UNCHANGED <<pItems, pIsGen, pWorker, pMaxWorkers, pToSubmit, pFutures,
                   pResults, pLogged, pipeVars, crow>>

NextPool ==
    \/ PoolStart
    \/ Submit
    \/ SubmitEnd
    \/ WorkerStart
    \/ WorkerFinish
    \/ Collect
    \/ PoolReturn

SpecPool == InitPool /\ [][NextPool]_vars

(***************************************************************************)
(* Properties of run_with_thread_pool                                      *)
(***************************************************************************)
CountIn(q, x) == Cardinality({i \in DOMAIN q : q[i] = x})
\* the items whose worker call has the outcome o
WithOutcome(items, o) == {i \in DOMAIN items : pWorker[items[i]] = o}

\* what a strictly serial run over the items appends, in input order
RECURSIVE SerialResults(_)
SerialResults(items) ==
    IF items = <<>> THEN <<>>
    ELSE IF pWorker[Head(items)] = "value"
         THEN <<ResultOf(Head(items))>> \o SerialResults(Tail(items))
         ELSE SerialResults(Tail(items))

\* the items a strictly serial run logs as failed, in input order
SerialFailed(items) == SelectSeq(items, LAMBDA x : pWorker[x] = "raise")

\* what the submission loop gets to see of items
Iterated == IF pIsGen THEN <<>> ELSE pItems

\* C4 as stated: the returned list has N - M elements for N items of which M
\* worker calls raise.
C4_ReturnsNMinusM ==
    ppc = "done" =>
        Len(pResults) = Len(pItems)
                        - Cardinality(WithOutcome([i \in DOMAIN pFutures |->
                                          pFutures[i].item], "raise"))

\* C4 amended: the call always runs to its return; every submitted item was
\* run and every raising call was logged; for a list of N items of which M
\* worker calls raise and K return None the returned list has N - M - K
\* elements; for a one-shot iterator nothing is submitted and the list is
\* empty.
C4_ReturnsNMinusMMinusNone ==
    /\ ppc # "done" => ENABLED NextPool
    /\ ppc = "done" =>
          /\ \A i \in DOMAIN pFutures : pFutures[i].st = "yielded"
          /\ IF pIsGen
             THEN pFutures = <<>> /\ pResults = <<>> /\ pLogged = <<>>
             ELSE /\ Len(pFutures) = Len(pItems)
                  /\ Len(pLogged) = Cardinality(WithOutcome(pItems, "raise"))
                  /\ Len(pResults) =
                        Len(pItems) - Cardinality(WithOutcome(pItems, "raise"))
                        - Cardinality(WithOutcome(pItems, "none"))

C4_Witness ==
    /\ ppc = "done" /\ ~pIsGen /\ Len(pItems) = 3
    /\ Cardinality(WithOutcome(pItems, "raise")) = 1
    /\ Cardinality(WithOutcome(pItems, "none")) = 1
    /\ Len(pResults) = 1

\* C5: whatever max_workers is and however the calls interleave, the
\* returned list holds the results of a serial run, each as often, and the
\* failed items are those of a serial run; only the order may differ.
C5_SameMembershipAsSerial ==
    ppc = "done" =>
        /\ \A x \in ItemVals :
              /\ CountIn(pResults, ResultOf(x))
                    = CountIn(SerialResults(Iterated), ResultOf(x))
              /\ CountIn(pLogged, x) = CountIn(SerialFailed(Iterated), x)
        /\ Len(pResults) = Len(SerialResults(Iterated))
        /\ pMaxWorkers = 1 => Len(pLogged) = Len(SerialFailed(Iterated))

C5_Witness ==
    /\ ppc = "done" /\ pMaxWorkers >= 2
    /\ Len(pResults) >= 2
    /\ pResults # SerialResults(Iterated)
    /\ pLogged # <<>>

(***************************************************************************)
(* One row of a table of n rows through scoring and classification         *)
(***************************************************************************)
\* the percentile score of the average rank a/2 among n values
Pct(a, n) == [nan |-> FALSE, num |-> 50 * a, den |-> n]

\* the turnover scores a row of a table of n rows can have: NaN when its
\* turnover is missing, else a rank among the k rows that have one
TurnScores(n) ==
    {NaNScore} \cup UNION {{Pct(a, k) : a \in 2..(2 * k)} : k \in 1..n}

InitClassify ==
    /\ PipeOff
    /\ PoolOff
    /\ \E n \in 1..MaxRows :
       \E am \in 2..(2 * n), ap \in 2..(2 * n) :
       \E t \in TurnScores(n) :
       \E b \in {"confirmed", "none"} :
          crow = [stage |-> "ranked",
                  row |-> ("money_score" :> Pct(am, n))
                          @@ ("price_score" :> Pct(ap, n))
                          @@ ("turn_score" :> t) @@ ("bigdeal" :> b)]

\* main['trend'] for the row
ScoreRow ==
    /\ crow.stage = "ranked"
    /\ crow' = [stage |-> "scored",
                row |-> ("trend" :> TrendScore(crow.row["money_score"],
                                               crow.row["price_score"]))
                        @@ crow.row]
    /\ UNCHANGED <<pipeVars, poolVars>>

\* main['signal'] for the row
ClassifyRow ==
    /\ crow.stage = "scored"
    /\ crow' = [stage |-> "labelled",
                row |-> ("signal" :> SignalOf(crow.row)) @@ crow.row]
    /\ UNCHANGED <<pipeVars, poolVars>>

NextClassify ==
    \/ ScoreRow
    \/ ClassifyRow

SpecClassify == InitClassify /\ [][NextClassify]_vars

(***************************************************************************)
(* Properties of the classification                                        *)
(***************************************************************************)
Labelled == crow.stage = "labelled"
HasTrend == crow.stage \in {"scored", "labelled"}
Rule1 == crow.row["trend"].v > 8500
Rule2 == crow.row["trend"].v < 2500
MoneyHigh == crow.row["money_score"].num > 75 * crow.row["money_score"].den
PriceLow == crow.row["price_score"].num < 50 * crow.row["price_score"].den
TurnHigh ==
    /\ ~crow.row["turn_score"].nan
    /\ crow.row["turn_score"].num > 60 * crow.row["turn_score"].den
Rule3 == MoneyHigh /\ PriceLow /\ TurnHigh
Rule4 ==
    /\ 5000 <= crow.row["trend"].v /\ crow.row["trend"].v <= 8000
    /\ crow.row["bigdeal"] = "confirmed"

\* C6: a classified row carries the label of the first rule that holds for
\* it, in the order trend > 85, trend < 25, submerged, active move, and the
\* watch-range label when none holds.
C6_FirstMatchWins ==
    Labelled =>
        crow.row["signal"] =
            IF Rule1 THEN "capital_offensive"
            ELSE IF Rule2 THEN "receding_warning"
            ELSE IF Rule3 THEN "submerged_accumulation"
            ELSE IF Rule4 THEN "low_level_active_move"
            ELSE "watch_range"

C6_Witness ==
    /\ Labelled /\ Rule3 /\ Rule4
    /\ crow.row["signal"] = "submerged_accumulation"

\* C10: a row whose money score is above 75 and whose price score is below
\* 50 has a trend score from 37.5 to 75, so rules 1 and 2 do not hold for
\* it and a row meeting rule 3 is labelled submerged-accumulation; the only
\* two rules that can hold together are 3 and 4, with the trend score from
\* 50 to 75.
C10_SubmergedNeverOverlapsAbove ==
    /\ (HasTrend /\ MoneyHigh /\ PriceLow) =>
          /\ 3750 <= crow.row["trend"].v /\ crow.row["trend"].v <= 7500
          /\ ~Rule1 /\ ~Rule2
    /\ (Labelled /\ Rule3) => crow.row["signal"] = "submerged_accumulation"
    /\ HasTrend =>
          /\ ~(Rule1 /\ Rule2) /\ ~(Rule1 /\ Rule4) /\ ~(Rule2 /\ Rule4)
          /\ (Rule3 /\ Rule4) => crow.row["trend"].v <= 7500

C10_Witness ==
    /\ Labelled /\ Rule3 /\ ~Rule4
    /\ crow.row["trend"].v < 5000
    /\ crow.row["bigdeal"] = "confirmed"
    /\ crow.row["signal"] = "submerged_accumulation"
====
